---- MODULE Spec2Model ----
(***************************************************************************)
(* Model of MedicalDataIngestion (agents/rag_agent/data_ingestion.py):     *)
(* the batch ingestor (ingest_directory), the format dispatcher            *)
(* (ingest_file), the four format extractors and the two content locators. *)
(*                                                                         *)
(* Paths are sequences of one-character strings, so that Path.suffix and   *)
(* str.lower() are computed and not assumed.  The content of a file is an  *)
(* input read when the file is ingested.                                   *)
(***************************************************************************)
EXTENDS Integers, Sequences, FiniteSets, TLC

VARIABLES stats, pc, files, enumerated, passed, call, dir

vars == <<stats, pc, files, enumerated, passed, call, dir>>

(***************************************************************************)
(* Bounds                                                                  *)
(***************************************************************************)
MaxTally == 2      \* no new top-level call once the counters sum to this
MaxDirFiles == 2   \* files enumerated by one ingest_directory call
MaxRows == 2       \* rows of a table
MaxCols == 2       \* columns of a table
MaxFields == 2     \* fields of a JSON object given to the content locator
MaxItems == 2      \* elements of a JSON collection, keys of a JSON mapping
MaxPages == 3      \* pages of a paginated document

(***************************************************************************)
(* Strings                                                                 *)
(***************************************************************************)
RECURSIVE Join(_)
Join(cs) == IF cs = <<>> THEN "" ELSE Head(cs) \o Join(Tail(cs))

RECURSIVE Rep(_, _)
Rep(s, n) == IF n = 0 THEN ""
             ELSE IF n % 2 = 0 THEN LET half == Rep(s, n \div 2) IN half \o half
             ELSE s \o Rep(s, n - 1)

UpperCase == {"A", "B", "C", "D", "E", "F", "G", "H", "I", "J", "K", "L", "M",
              "N", "O", "P", "Q", "R", "S", "T", "U", "V", "W", "X", "Y", "Z"}

LowerOf == [c \in UpperCase |->
              CASE c = "A" -> "a" [] c = "B" -> "b" [] c = "C" -> "c"
                [] c = "D" -> "d" [] c = "E" -> "e" [] c = "F" -> "f"
                [] c = "G" -> "g" [] c = "H" -> "h" [] c = "I" -> "i"
                [] c = "J" -> "j" [] c = "K" -> "k" [] c = "L" -> "l"
                [] c = "M" -> "m" [] c = "N" -> "n" [] c = "O" -> "o"
                [] c = "P" -> "p" [] c = "Q" -> "q" [] c = "R" -> "r"
                [] c = "S" -> "s" [] c = "T" -> "t" [] c = "U" -> "u"
                [] c = "V" -> "v" [] c = "W" -> "w" [] c = "X" -> "x"
                [] c = "Y" -> "y" [] c = "Z" -> "z"]

\* str.lower() on a sequence of characters
Lower(cs) == [i \in 1..Len(cs) |-> IF cs[i] \in UpperCase THEN LowerOf[cs[i]] ELSE cs[i]]

NoLower(cs) == cs

\* the suffix.lower() of the dispatcher
SuffixKey(cs) == Lower(cs)

\* str.rfind("."): the last index of a dot, 0 when there is none
LastDot(cs) == IF \E i \in 1..Len(cs) : cs[i] = "."
               THEN CHOOSE i \in 1..Len(cs) :
                       /\ cs[i] = "."
                       /\ \A j \in (i + 1)..Len(cs) : cs[j] # "."
               ELSE 0

\* pathlib's PurePath.suffix: the part of the name from its last dot, empty
\* when the dot is the first or the last character or is missing
Suffix(name) == LET i == LastDot(name)
                IN  IF 1 < i /\ i < Len(name) THEN SubSeq(name, i, Len(name)) ELSE <<>>

EndsWith(cs, tail) == /\ Len(tail) <= Len(cs)
                      /\ SubSeq(cs, Len(cs) - Len(tail) + 1, Len(cs)) = tail

(***************************************************************************)
(* Values of the normalized documents: tagged as the Python types are.     *)
(***************************************************************************)
VStr(s) == [t |-> "str", s |-> s]
VInt(n) == [t |-> "int", n |-> n]
VBool(b) == [t |-> "bool", b |-> b]
VNull == [t |-> "null"]
VList(xs) == [t |-> "list", items |-> xs]
VDict(ps) == [t |-> "dict", pairs |-> ps]

\* isinstance(value, (str, int, float, bool))
IsScalar(v) == v.t \in {"str", "int", "float", "bool"}

\* d[k] = v on a Python dict
Put(d, k, v) == (k :> v) @@ d


\* dict.update in iteration order: ps is a sequence of <<key, value>> pairs
RECURSIVE PutAll(_, _)
PutAll(d, ps) == IF ps = <<>> THEN d
                 ELSE PutAll(Put(d, Head(ps)[1], Head(ps)[2]), Tail(ps))

Digit == [d \in 0..9 |-> CASE d = 0 -> "0" [] d = 1 -> "1" [] d = 2 -> "2"
                           [] d = 3 -> "3" [] d = 4 -> "4" [] d = 5 -> "5"
                           [] d = 6 -> "6" [] d = 7 -> "7" [] d = 8 -> "8"
                           [] d = 9 -> "9"]

\* str(n) of a natural number
RECURSIVE NatStr(_)
NatStr(n) == IF n < 10 THEN Digit[n] ELSE NatStr(n \div 10) \o Digit[n % 10]

(***************************************************************************)
(* Results and counters                                                    *)
(***************************************************************************)
Document(content, metadata) == [content |-> content, metadata |-> metadata]

OkDocument(d) == [success |-> TRUE, document |-> d]
OkDocuments(ds) == [success |-> TRUE, documents |-> ds]
FailureWithDocuments(e) == [success |-> FALSE, error |-> e, documents |-> <<>>]

Failure(e) == [success |-> FALSE, error |-> e]

InitStats == [files_processed |-> 0, documents_ingested |-> 0, errors |-> 0]

AddOneDocument(st, n) == [st EXCEPT !.documents_ingested = @ + 1]

SetDocuments(st, n) == [st EXCEPT !.documents_ingested = n]

\* "self.stats['documents_ingested'] += n"
AddDocuments(st, n) == [st EXCEPT !.documents_ingested = @ + n]

\* what a file holds when it cannot be read or parsed as its format
Unreadable == [kind |-> "unreadable"]
NoPayload == [kind |-> "none"]

(***************************************************************************)
(* Text extractor                                                          *)
(***************************************************************************)
\* an extractor that counts the document before it reads the file
IngestTextFileCountFirst(name, payload, st) ==
    IF payload.kind = "text"
    THEN [result |-> OkDocument(Document(payload.text,
                         [k \in {"source", "file_type"} |->
                             IF k = "source" THEN VStr(Join(name)) ELSE VStr("txt")])),
          stats |-> AddDocuments(st, 1)]
    ELSE [result |-> Failure("read error"), stats |-> AddDocuments(st, 1)]

IngestTextFile(name, payload, st) ==
    IF payload.kind = "text"
    THEN [result |-> OkDocument(Document(payload.text,
                         [k \in {"source", "file_type"} |->
                             IF k = "source" THEN VStr(Join(name)) ELSE VStr("txt")])),
          stats |-> AddDocuments(st, 1)]
    ELSE [result |-> Failure("read error"), stats |-> st]

(***************************************************************************)
(* Content locator, column variant.  A table is a header and rows of cells *)
(* as the delimited file holds them: a cell is a string, empty for a       *)
(* missing value.                                                          *)
(***************************************************************************)
ContentNames == <<"content", "text", "description", "abstract", "body">>

NumericTokens == {"7", "12"}

IsNull(cell) == cell = ""

ColIndex(t, col) == CHOOSE j \in 1..Len(t.columns) : t.columns[j] = col

\* the dtype pandas infers for a column
ColDtype(t, j) ==
    IF t.rows = <<>> THEN "object"
    ELSE IF \E r \in 1..Len(t.rows) :
               ~IsNull(t.rows[r][j]) /\ t.rows[r][j] \notin NumericTokens
         THEN "object"
    ELSE IF \E r \in 1..Len(t.rows) : IsNull(t.rows[r][j]) THEN "float64"
    ELSE "int64"

\* len(str(x)) of a cell of an object column: a missing value reads "nan"
AsTypeStrLen(cell) == IF IsNull(cell) THEN 3 ELSE Len(cell)

RECURSIVE SumLen(_, _, _)
SumLen(t, j, r) == IF r = 0 THEN 0 ELSE SumLen(t, j, r - 1) + AsTypeStrLen(t.rows[r][j])

\* the rows are the same for every column, so the means compare as the sums
AvgLength(t, j) == SumLen(t, j, Len(t.rows))

\* a locator that consults the lengths before the names
IdentifyContentColumnByLength(t) ==
    LET objs == {j \in 1..Len(t.columns) : ColDtype(t, j) = "object"}
    IN  IF objs # {}
        THEN t.columns[CHOOSE j \in objs :
                          /\ \A k \in objs : AvgLength(t, k) <= AvgLength(t, j)
                          /\ \A k \in objs : k < j => AvgLength(t, k) < AvgLength(t, j)]
        ELSE t.columns[1]

IdentifyContentColumn(t) ==
    LET named == {i \in 1..Len(ContentNames) :
                     \E j \in 1..Len(t.columns) : t.columns[j] = ContentNames[i]}
        objs == {j \in 1..Len(t.columns) : ColDtype(t, j) = "object"}
    IN  IF named # {}
        THEN ContentNames[CHOOSE i \in named : \A k \in named : i <= k]
        ELSE IF objs # {}
        THEN t.columns[CHOOSE j \in objs :
                          /\ \A k \in objs : AvgLength(t, k) <= AvgLength(t, j)
                          /\ \A k \in objs : k < j => AvgLength(t, k) < AvgLength(t, j)]
        ELSE t.columns[1]

(***************************************************************************)
(* Tabular extractor                                                       *)
(***************************************************************************)
\* the dtype of the row Series that iterrows() hands out
RowDtype(t) ==
    IF \E j \in 1..Len(t.columns) : ColDtype(t, j) = "object" THEN "object"
    ELSE IF \E j \in 1..Len(t.columns) : ColDtype(t, j) = "float64" THEN "float64"
    ELSE "int64"

\* str(row[col])
StrCell(t, r, j) ==
    LET cell == t.rows[r][j]
    IN  IF IsNull(cell) THEN "nan"
        ELSE IF ColDtype(t, j) = "object" THEN cell
        ELSE IF ColDtype(t, j) = "float64" \/ RowDtype(t) = "float64" THEN cell \o ".0"
        ELSE cell

CsvKeepAll(col, text_column, cell) == ~IsNull(cell)

\* "if col != text_column and not pd.isna(row[col])"
CsvIsMetadata(col, text_column, cell) == col # text_column /\ ~IsNull(cell)

CsvRowMetadata(name, t, r, text_column) ==
    LET base == [k \in {"source", "file_type"} |->
                    IF k = "source" THEN VStr(Join(name)) ELSE VStr("csv")]
        cols == [j \in 1..Len(t.columns) |-> <<t.columns[j], VStr(StrCell(t, r, j))>>]
        kept(p) == CsvIsMetadata(p[1], text_column, t.rows[r][ColIndex(t, p[1])])
    IN  PutAll(base, SelectSeq(cols, kept))

CsvDocuments(name, t) ==
    LET text_column == IdentifyContentColumn(t)
    IN  [r \in 1..Len(t.rows) |->
            Document(StrCell(t, r, ColIndex(t, text_column)),
                     CsvRowMetadata(name, t, r, text_column))]

IngestCsvFile(name, payload, st) ==
    IF payload.kind = "table"
    THEN LET documents == CsvDocuments(name, payload.table)
         IN  [result |-> OkDocuments(documents),
              stats |-> AddDocuments(st, Len(documents))]
    ELSE [result |-> Failure("parse error"), stats |-> st]


(***************************************************************************)
(* Content locator, field variant.  A JSON object is the sequence of its   *)
(* <<key, value>> pairs in encounter order, keys unique.  The result is    *)
(* Optional[str]: <<>> is None, <<k>> is the name k.                       *)
(***************************************************************************)
MinFieldLen == 50
MinBlobLen == 100

\* a locator that takes a priority name whatever its value is
IdentifyJsonContentFieldAnyType(ps) ==
    LET named == {i \in 1..Len(ContentNames) :
                     \E j \in 1..Len(ps) : ps[j][1] = ContentNames[i]}
        texts == {j \in 1..Len(ps) : ps[j][2].t = "str" /\ Len(ps[j][2].s) > MinFieldLen}
    IN  IF named # {}
        THEN <<ContentNames[CHOOSE i \in named : \A k \in named : i <= k]>>
        ELSE IF texts # {}
        THEN <<ps[CHOOSE j \in texts :
                     /\ \A k \in texts : Len(ps[k][2].s) <= Len(ps[j][2].s)
                     /\ \A k \in texts : k < j => Len(ps[k][2].s) < Len(ps[j][2].s)][1]>>
        ELSE <<>>

IdentifyJsonContentField(ps) ==
    LET named == {i \in 1..Len(ContentNames) :
                     \E j \in 1..Len(ps) : ps[j][1] = ContentNames[i] /\ ps[j][2].t = "str"}
        texts == {j \in 1..Len(ps) : ps[j][2].t = "str" /\ Len(ps[j][2].s) > MinFieldLen}
    IN  IF named # {}
        THEN <<ContentNames[CHOOSE i \in named : \A k \in named : i <= k]>>
        ELSE IF texts # {}
        THEN <<ps[CHOOSE j \in texts :
                     /\ \A k \in texts : Len(ps[k][2].s) <= Len(ps[j][2].s)
                     /\ \A k \in texts : k < j => Len(ps[k][2].s) < Len(ps[j][2].s)][1]>>
        ELSE <<>>

\* "if content_field:" is false for None and for the empty name
Truthy(opt) == opt # <<>> /\ opt[1] # ""

Lookup(ps, k) == ps[CHOOSE j \in 1..Len(ps) : ps[j][1] = k][2]

(***************************************************************************)
(* Structured-record extractor                                             *)
(***************************************************************************)
\* "for key, value in item.items(): if key != content_field and
\*  isinstance(value, (str, int, float, bool)): metadata[key] = value"
JsonRecordMetadata(base, ps, content_field) ==
    LET kept(p) == p[1] # content_field /\ IsScalar(p[2])
    IN  PutAll(base, SelectSeq(ps, kept))

JsonBase(name) == [k \in {"source", "file_type"} |->
                      IF k = "source" THEN VStr(Join(name)) ELSE VStr("json")]

\* the documents of one object, none when no content field is found
JsonRecordDocuments(base, ps) ==
    LET content_field == IdentifyJsonContentField(ps)
    IN  IF Truthy(content_field)
        THEN <<Document(Lookup(ps, content_field[1]).s,
                        JsonRecordMetadata(base, ps, content_field[1]))>>
        ELSE <<>>

RECURSIVE JsonListDocuments(_, _)
JsonListDocuments(name, items) ==
    IF items = <<>> THEN <<>>
    ELSE (IF Head(items).t = "dict"
          THEN JsonRecordDocuments(JsonBase(name), Head(items).pairs)
          ELSE <<>>) \o JsonListDocuments(name, Tail(items))

RECURSIVE JsonDictDocuments(_, _)
JsonDictDocuments(name, ps) ==
    IF ps = <<>> THEN <<>>
    ELSE LET key == Head(ps)[1]
             value == Head(ps)[2]
         IN  (IF value.t = "str" /\ Len(value.s) > MinBlobLen
              THEN <<Document(value.s, Put(JsonBase(name), "key", VStr(key)))>>
              ELSE IF value.t = "dict"
              THEN JsonRecordDocuments(Put(JsonBase(name), "document_id", VStr(key)),
                                       value.pairs)
              ELSE <<>>) \o JsonDictDocuments(name, Tail(ps))

JsonDocuments(name, data) ==
    IF data.t = "list" THEN JsonListDocuments(name, data.items)
    ELSE IF data.t = "dict" THEN JsonDictDocuments(name, data.pairs)
    ELSE <<>>

IngestJsonFile(name, payload, st) ==
    IF payload.kind = "json"
    THEN LET documents == JsonDocuments(name, payload.data)
         IN  IF documents = <<>>
             THEN [result |-> Failure("No valid documents found"), stats |-> st]
             ELSE [result |-> OkDocuments(documents),
                   stats |-> AddDocuments(st, Len(documents))]
    ELSE [result |-> Failure("parse error"), stats |-> st]

(***************************************************************************)
(* Paginated-document extractor.  pages[i] is what extract_text() returns  *)
(* for page i, info the pairs of the document information dictionary with  *)
(* keys as character sequences.                                            *)
(***************************************************************************)
RECURSIVE PdfContent(_, _)
PdfContent(pages, n) ==
    IF n = 0 THEN ""
    ELSE PdfContent(pages, n - 1) \o
         (IF pages[n] # ""
          THEN "--- Page " \o NatStr(n) \o " ---\n" \o pages[n] \o "\n\n"
          ELSE "")

\* "clean_key = key[1:] if key.startswith('/') else key", then lower()
PdfCleanKey(key) == Join(Lower(IF Head(key) = "/" THEN Tail(key) ELSE key))

\* "if key and value and isinstance(value, str)"
PdfIsMetadata(p) == p[1] # <<>> /\ p[2].t = "str" /\ p[2].s # ""

PdfMetadata(name, pages, info) ==
    LET base == [k \in {"source", "file_type", "num_pages"} |->
                    IF k = "source" THEN VStr(Join(name))
                    ELSE IF k = "file_type" THEN VStr("pdf")
                    ELSE VInt(Len(pages))]
        kept == SelectSeq(info, PdfIsMetadata)
    IN  PutAll(base, [i \in 1..Len(kept) |-> <<PdfCleanKey(kept[i][1]), kept[i][2]>>])

IngestPdfFile(name, payload, st) ==
    IF payload.kind = "pdf"
    THEN [result |-> OkDocument(Document(PdfContent(payload.pages, Len(payload.pages)),
                                         PdfMetadata(name, payload.pages, payload.info))),
          stats |-> AddDocuments(st, 1)]
    ELSE [result |-> Failure("read error"), stats |-> st]

(***************************************************************************)
(* Format dispatcher: ingest_file.  An entry is a path with what is found  *)
(* there: a regular file, a directory, a dangling link, or nothing.        *)
(***************************************************************************)
ExistsNoFollow(entry) == entry.kind # "missing"

\* Path.exists() follows links
Exists(entry) == entry.kind \in {"file", "dir"}

Returned(extractor, r) ==
    [outcome |-> "returned", result |-> r.result, extractor |-> extractor, stats |-> r.stats]

IngestFile(entry, payload, st) ==
    IF ~Exists(entry)
    THEN [outcome |-> "raised", result |-> [raised |-> "FileNotFoundError"],
          extractor |-> "none", stats |-> st]
    ELSE LET key == SuffixKey(Suffix(entry.name))
         IN  IF key = <<".", "t", "x", "t">>
             THEN Returned("text", IngestTextFile(entry.name, payload, st))
             ELSE IF key = <<".", "c", "s", "v">>
             THEN Returned("csv", IngestCsvFile(entry.name, payload, st))
             ELSE IF key = <<".", "j", "s", "o", "n">>
             THEN Returned("json", IngestJsonFile(entry.name, payload, st))
             ELSE IF key = <<".", "p", "d", "f">>
             THEN Returned("pdf", IngestPdfFile(entry.name, payload, st))
             ELSE Returned("none", [result |-> Failure("Unsupported file format"),
                                    stats |-> st])


(***************************************************************************)
(* Inputs: paths, directory entries and file contents                      *)
(***************************************************************************)
TxtFile == [name |-> <<"a", ".", "t", "x", "t">>, kind |-> "file"]
UpperTxtFile == [name |-> <<"b", ".", "T", "X", "T">>, kind |-> "file"]
CsvFile == [name |-> <<"c", ".", "c", "s", "v">>, kind |-> "file"]
JsonFile == [name |-> <<"d", ".", "J", "s", "o", "n">>, kind |-> "file"]
PdfFile == [name |-> <<"e", ".", "p", "d", "f">>, kind |-> "file"]
OtherFile == [name |-> <<"f", ".", "m", "d">>, kind |-> "file"]
DanglingLink == [name |-> <<"g", ".", "t", "x", "t">>, kind |-> "broken"]
SubDirectory == [name |-> <<"h", ".", "t", "x", "t">>, kind |-> "dir"]

\* what a directory may hold
DirEntries == {TxtFile, CsvFile, JsonFile, PdfFile, OtherFile, DanglingLink, SubDirectory}

\* the paths ingest_file is called with directly
PathEntries == DirEntries \cup
    {UpperTxtFile,
     [name |-> <<"n", "o", "e", "x", "t">>, kind |-> "file"],
     [name |-> <<".", "t", "x", "t">>, kind |-> "file"],
     [name |-> <<"a", ".", "c", "s", "v", ".", "P", "D", "F">>, kind |-> "file"],
     [name |-> <<"m", ".", "t", "x", "t">>, kind |-> "missing"],
     [name |-> <<"m", ".", "C", "S", "V">>, kind |-> "missing"],
     [name |-> <<"m", ".", "j", "s", "o", "n">>, kind |-> "missing"],
     [name |-> <<"m", ".", "p", "d", "f">>, kind |-> "missing"],
     [name |-> <<"m", ".", "m", "d">>, kind |-> "missing"]}

ColumnNames == {"source", "text", "note"}

Cells == {"", "7", "abc"}

\* the headers: distinct column names, at least one
Headers ==
    {h \in UNION {[1..n -> ColumnNames] : n \in 1..MaxCols} :
        \A i, j \in 1..Len(h) : i # j => h[i] # h[j]}

\* the file_extension argument; <<>> stands for None and for ""
Filters == {<<>>, <<".", "t", "x", "t">>, <<".", "c", "s", "v">>}

TextPayload(s) == [kind |-> "text", text |-> s]
TablePayload(t) == [kind |-> "table", table |-> t]
JsonPayload(d) == [kind |-> "json", data |-> d]
PdfPayload(pages, info) == [kind |-> "pdf", pages |-> pages, info |-> info]

SampleTables ==
    {[columns |-> <<"source", "note">>, rows |-> << <<"x", "abc">> >>],
     [columns |-> <<"id", "text">>, rows |-> <<>>],
     [columns |-> <<"id", "text">>, rows |-> << <<"7", "abc">>, <<"", "ab">> >>]}

SampleJson ==
    {VList(<<VDict(<< <<"content", VStr("hi")>>, <<"source", VStr("other")>>,
                       <<"tags", VList(<<>>)>> >>),
             VInt(3),
             VDict(<< <<"id", VInt(1)>>, <<"note", VStr("short")>> >>)>>),
     VDict(<< <<"intro", VStr(Rep("a", 101))>>,
              <<"meta", VDict(<< <<"content", VStr("hello")>>,
                                 <<"document_id", VStr("zz")>> >>)>> >>),
     VList(<<>>),
     VInt(1)}

SamplePdf ==
    {PdfPayload(<<"one", "", "three">>,
                << <<<<"/", "A", "u", "t", "h", "o", "r">>, VStr("ann")>>,
                   <<<<"/", "S", "o", "u", "r", "c", "e">>, VStr("scan")>>,
                   <<<<"/", "P", "a", "g", "e", "s">>, VInt(3)>> >>),
     PdfPayload(<<>>, <<>>)}

FileContents ==
    {Unreadable, TextPayload("hello")}
        \cup {TablePayload(t) : t \in SampleTables}
        \cup {JsonPayload(d) : d \in SampleJson}
        \cup SamplePdf

\* what reading the entry can yield
Contents(entry) == IF entry.kind = "file" THEN FileContents
                   ELSE IF entry.kind = "dir" THEN {Unreadable}
                   ELSE {NoPayload}

(***************************************************************************)
(* Batch ingestor: ingest_directory                                        *)
(***************************************************************************)
\* "directory.glob(f'*{file_extension}')" when a filter is given, else
\* "[f for f in directory.iterdir() if f.is_file()]"
Matches(entry, filter) == IF filter # <<>> THEN EndsWith(entry.name, filter)
                          ELSE entry.kind = "file"

\* the enumerations of at most MaxDirFiles entries, in any order
Listings(filter) ==
    {l \in UNION {[1..n -> {e \in DirEntries : Matches(e, filter)}] : n \in 0..MaxDirFiles} :
        \A i, j \in 1..Len(l) : i # j => l[i] # l[j]}

CountFileSwallow(r) == IF r.outcome = "raised"
                       THEN r.stats
                       ELSE [r.stats EXCEPT !.files_processed = @ + 1]

\* the "try: ... += 1 / except Exception: ... += 1" of the loop body
CountFile(r) == IF r.outcome = "raised"
                THEN [r.stats EXCEPT !.errors = @ + 1]
                ELSE [r.stats EXCEPT !.files_processed = @ + 1]

\* the outer "except Exception: return self.stats"
DirectoryFailure(st) == [outcome |-> "returned", value |-> st]

Tally(st) == st.files_processed + st.documents_ingested + st.errors

NoCall == [via |-> "none"]
NoDir == [state |-> "none"]

FileCallRecord(via, entry, payload, pre, r) ==
    [via |-> via, entry |-> entry, payload |-> payload, pre |-> pre,
     outcome |-> r.outcome, result |-> r.result, extractor |-> r.extractor]

\* how the call for one enumerated file ended
Passed(entry, r) ==
    [entry |-> entry, extractor |-> r.extractor,
     ended |-> IF r.outcome = "raised" THEN "raised"
               ELSE IF r.result.success THEN "success" ELSE "failure"]

Init ==
    /\ stats = InitStats
    /\ pc = "idle"
    /\ files = <<>>
    /\ enumerated = <<>>
    /\ passed = <<>>
    /\ call = NoCall
    /\ dir = NoDir

\* ingest_file called on its own
IngestFileCall ==
    /\ pc = "idle"
    /\ Tally(stats) < MaxTally
    /\ \E entry \in PathEntries : \E payload \in Contents(entry) :
          LET r == IngestFile(entry, payload, stats)
          IN  /\ stats' = r.stats
              /\ call' = FileCallRecord("file", entry, payload, stats, r)
    /\ enumerated' = <<>>
    /\ passed' = <<>>
    /\ dir' = NoDir
    /\ UNCHANGED <<pc, files>>

\* ingest_directory on a path that is missing or not a directory
DirectoryMissing ==
    /\ pc = "idle"
    /\ Tally(stats) < MaxTally
    /\ \E kind \in {"missing", "file"} : \E filter \in Filters :
          dir' = [state |-> "done", kind |-> kind, filter |-> filter, pre |-> stats]
                    @@ DirectoryFailure(stats)
    /\ enumerated' = <<>>
    /\ passed' = <<>>
    /\ call' = NoCall
    /\ UNCHANGED <<stats, pc, files>>

\* ingest_directory on a directory, up to the enumeration of its files
DirectoryStart ==
    /\ pc = "idle"
    /\ Tally(stats) < MaxTally
    /\ \E filter \in Filters : \E listing \in Listings(filter) :
          /\ files' = listing
          /\ enumerated' = listing
          /\ dir' = [state |-> "running", kind |-> "dir", filter |-> filter, pre |-> stats]
    /\ passed' = <<>>
    /\ call' = NoCall
    /\ pc' = "loop"
    /\ UNCHANGED stats

\* one iteration of "for file_path in files"
DirectoryStep ==
    /\ pc = "loop"
    /\ files # <<>>
    /\ \E payload \in Contents(Head(files)) :
          LET r == IngestFile(Head(files), payload, stats)
          IN  /\ stats' = CountFile(r)
              /\ call' = FileCallRecord("directory", Head(files), payload, stats, r)
              /\ passed' = Append(passed, Passed(Head(files), r))
    /\ files' = Tail(files)
    /\ UNCHANGED <<pc, enumerated, dir>>

\* "return self.stats" after the loop
DirectoryReturn ==
    /\ pc = "loop"
    /\ files = <<>>
    /\ dir' = [state |-> "done", kind |-> dir.kind, filter |-> dir.filter, pre |-> dir.pre]
                 @@ [outcome |-> "returned", value |-> stats]
    /\ pc' = "idle"
    /\ UNCHANGED <<stats, files, enumerated, passed, call>>

\* ingest_file applied to the file drawn as the input
ApplyIngestFile ==
    /\ pc = "input"
    /\ LET r == IngestFile(call.entry, call.payload, stats)
       IN  /\ stats' = r.stats
           /\ call' = FileCallRecord("file", call.entry, call.payload, stats, r)
    /\ pc' = "idle"
    /\ UNCHANGED <<files, enumerated, passed, dir>>

InputIs(entry, payload) ==
    /\ stats = InitStats
    /\ pc = "input"
    /\ files = <<>>
    /\ enumerated = <<>>
    /\ passed = <<>>
    /\ call = [via |-> "input", entry |-> entry, payload |-> payload]
    /\ dir = NoDir

\* the tables of at most MaxCols columns and MaxRows rows
Tables ==
    UNION {[columns : {h}, rows : [1..n -> [1..Len(h) -> Cells]]] :
              h \in Headers, n \in 0..MaxRows}

InitCsv == \E t \in Tables : InputIs(CsvFile, TablePayload(t))

SpecCsv == InitCsv /\ [][ApplyIngestFile]_vars

(***************************************************************************)
(* The content locators on their own                                       *)
(***************************************************************************)
LocatorColumnNames == {"text", "body", "note", "id"}

LocatorHeaders ==
    {h \in UNION {[1..n -> LocatorColumnNames] : n \in 1..MaxCols} :
        \A i, j \in 1..Len(h) : i # j => h[i] # h[j]}

LocatorTables ==
    UNION {[columns : {h}, rows : [1..n -> [1..Len(h) -> Cells]]] :
              h \in LocatorHeaders, n \in 0..MaxRows}

InitColumn == \E t \in LocatorTables : InputIs(CsvFile, TablePayload(t))

\* _identify_content_column applied to the table drawn as the input
ApplyColumnLocator ==
    /\ pc = "input"
    /\ call' = [via |-> "column", table |-> call.payload.table,
                column |-> IdentifyContentColumn(call.payload.table)]
    /\ pc' = "idle"
    /\ UNCHANGED <<stats, files, enumerated, passed, dir>>

SpecColumn == InitColumn /\ [][ApplyColumnLocator]_vars

FieldKeys == {"content", "text", "note", "id", ""}

FieldValues == {VStr("short"), VStr(Rep("a", 50)), VStr(Rep("b", 51)), VStr(Rep("c", 60)),
                VInt(1), VList(<<>>)}

\* the JSON objects of at most MaxFields fields
Objects ==
    {ps \in UNION {[1..n -> FieldKeys \X FieldValues] : n \in 0..MaxFields} :
        \A i, j \in 1..Len(ps) : i # j => ps[i][1] # ps[j][1]}

InitField == \E ps \in Objects : InputIs(JsonFile, JsonPayload(VDict(ps)))

\* _identify_json_content_field applied to the object drawn as the input
ApplyFieldLocator ==
    /\ pc = "input"
    /\ call' = [via |-> "field", item |-> call.payload.data.pairs,
                field |-> IdentifyJsonContentField(call.payload.data.pairs)]
    /\ pc' = "idle"
    /\ UNCHANGED <<stats, files, enumerated, passed, dir>>

SpecField == InitField /\ [][ApplyFieldLocator]_vars

(***************************************************************************)
(* The structured-record and paginated-document extractors on their own    *)
(***************************************************************************)
ExampleRecord == VDict(<< <<"content", VStr("hello world")>>, <<"tag", VStr("x")>> >>)

\* the elements of a collection and the values of a mapping
JsonItems ==
    {ExampleRecord,
     VDict(<< <<"note", VStr(Rep("b", 51))>>, <<"refs", VList(<<>>)>>, <<"n", VInt(1)>> >>),
     VDict(<< <<"id", VInt(1)>>, <<"note", VStr("short")>> >>),
     VDict(<< <<"", VStr(Rep("b", 51))>> >>),
     VDict(<< <<"content", VStr("hello")>>, <<"document_id", VStr("zz")>> >>),
     VInt(3),
     VStr(Rep("a", 100)),
     VStr(Rep("a", 101)),
     VStr(Rep("a", 120))}

TopKeys == {"intro", "meta", "k"}

JsonLists == UNION {[1..n -> JsonItems] : n \in 0..MaxItems}

JsonMappings ==
    {ps \in UNION {[1..n -> TopKeys \X JsonItems] : n \in 0..MaxItems} :
        \A i, j \in 1..Len(ps) : i # j => ps[i][1] # ps[j][1]}

\* what json.load() can return
JsonData == {VList(l) : l \in JsonLists} \cup {VDict(ps) : ps \in JsonMappings}
               \cup {VInt(1), VNull}

InitJson == \E d \in JsonData : InputIs(JsonFile, JsonPayload(d))

SpecJson == InitJson /\ [][ApplyIngestFile]_vars

\* what extract_text() gives for a page: "" for a page without text
PageTexts == {"", "one", "two"}

PdfPages == UNION {[1..n -> PageTexts] : n \in 0..MaxPages}

\* the document information dictionaries
PdfInfos ==
    {<<>>,
     << <<<<"/", "A", "u", "t", "h", "o", "r">>, VStr("ann")>>,
        <<<<"/", "P", "a", "g", "e", "s">>, VInt(3)>> >>,
     << <<<<"/", "N", "u", "m", "_", "P", "a", "g", "e", "s">>, VStr("x")>> >>}

InitPdf == \E pages \in PdfPages : \E info \in PdfInfos :
              InputIs(PdfFile, PdfPayload(pages, info))

SpecPdf == InitPdf /\ [][ApplyIngestFile]_vars

Next == \/ IngestFileCall
        \/ DirectoryMissing
        \/ DirectoryStart
        \/ DirectoryStep
        \/ DirectoryReturn

Spec == Init /\ [][Next]_vars

(***************************************************************************)
(* Properties                                                              *)
(***************************************************************************)
Stats(fp, di, er) == [files_processed |-> fp, documents_ingested |-> di, errors |-> er]

\* the file call recorded last was made by the loop of ingest_directory
InLoop == call.via = "directory"

\* the file call recorded last returned a failure result
ReturnedFailure == /\ call.via \in {"file", "directory"}
                   /\ call.outcome = "returned"
                   /\ ~call.result.success

\* C1: a file whose ingestion fails without being fatal adds one to errors
\* and nothing to files_processed; a fresh ingestor run on a directory of
\* one unsupported file and one valid text file ends with the tally
\* errors = 1, files_processed = 1, documents_ingested = 1.
C1_FailureCountsAsError ==
    /\ (InLoop /\ ReturnedFailure)
          => /\ stats.errors = call.pre.errors + 1
             /\ stats.files_processed = call.pre.files_processed
    /\ (/\ dir.state = "done" /\ dir.kind = "dir" /\ dir.pre = InitStats
        /\ Len(passed) = 2
        /\ \E i, j \in 1..2 :
              /\ passed[i].entry = OtherFile /\ passed[i].ended = "failure"
              /\ passed[j].entry = TxtFile /\ passed[j].ended = "success")
          => (dir.outcome = "returned" /\ dir.value = Stats(1, 1, 1))

\* C2: ingest_directory on a path that is missing or not a directory ends
\* in a fatal error and hands back no tally.
C2_BadDirectoryIsFatal ==
    (dir.state = "done" /\ dir.kind # "dir") => dir.outcome = "raised"


\* the number of documents a success result carries
NumDocuments(r) == IF "document" \in DOMAIN r THEN 1 ELSE Len(r.documents)

\* the recorded file call read a well-formed file of the format its
\* extension names, from which at least one document can be derived when
\* the format is the structured-record one
ValidFile ==
    /\ call.via \in {"file", "directory"}
    /\ call.entry.kind = "file"
    /\ \/ call.extractor = "text" /\ call.payload.kind = "text"
       \/ call.extractor = "csv" /\ call.payload.kind = "table"
       \/ /\ call.extractor = "json" /\ call.payload.kind = "json"
          /\ JsonDocuments(call.entry.name, call.payload.data) # <<>>
       \/ call.extractor = "pdf" /\ call.payload.kind = "pdf"

C4_Counted ==
    dir.state \in {"running", "done"} /\ dir.kind = "dir" =>
       /\ [i \in 1..Len(passed) |-> passed[i].entry] \o files = enumerated
       /\ stats.files_processed + stats.errors
             = dir.pre.files_processed + dir.pre.errors + Len(passed)
       /\ dir.state = "done" =>
             /\ files = <<>>
             /\ dir.outcome = "returned"
             /\ dir.value = stats

C4_StepAdvances ==
    pc = "loop" =>
       \/ /\ files # <<>>
          /\ pc' = "loop" /\ files' = Tail(files)
          /\ call'.via = "directory" /\ call'.entry = Head(files)
       \/ /\ files = <<>>
          /\ pc' = "idle" /\ dir'.state = "done"

C4_EveryFileOnceAndReturns == []C4_Counted /\ [][C4_StepAdvances]_vars

C4_Witness ==
    /\ dir.state = "done" /\ dir.kind = "dir"
    /\ Len(enumerated) = 2
    /\ passed[1].ended = "raised"
    /\ passed[2].ended = "success"
    /\ stats.errors = dir.pre.errors + 1
    /\ stats.files_processed = dir.pre.files_processed + 1

\* C5: ingest_file on a path at which nothing exists raises the not-found
\* error and invokes no extractor, whatever the extension of the path.
C5_MissingFileRaises ==
    (call.via \in {"file", "directory"} /\ call.entry.kind \in {"missing", "broken"})
       => /\ call.outcome = "raised"
          /\ call.result = [raised |-> "FileNotFoundError"]
          /\ call.extractor = "none"

C5_Witness ==
    /\ call.via = "file"
    /\ call.entry = [name |-> <<"m", ".", "C", "S", "V">>, kind |-> "missing"]
    /\ call.outcome = "raised"
    /\ stats = call.pre

\* letters compared without regard to case, one character at a time
SameLetters(a, b) ==
    /\ Len(a) = Len(b)
    /\ \A i \in 1..Len(a) :
          \/ a[i] = b[i]
          \/ a[i] \in UpperCase /\ LowerOf[a[i]] = b[i]
          \/ b[i] \in UpperCase /\ LowerOf[b[i]] = a[i]

\* the extension of a name: what follows its last dot, when that dot is
\* neither the first nor the last character
HasExtension(name, ext) ==
    /\ Len(name) > Len(ext) + 1
    /\ SameLetters(SubSeq(name, Len(name) - Len(ext), Len(name)), <<".">> \o ext)

\* C6: on an existing file the extension, compared without regard to case,
\* alone chooses the extractor; any other extension invokes none and
\* returns the failure "Unsupported file format" without raising.
C6_DispatchByExtension ==
    (call.via \in {"file", "directory"} /\ call.entry.kind \in {"file", "dir"}) =>
       LET name == call.entry.name
       IN  /\ call.outcome = "returned"
           /\ HasExtension(name, <<"t", "x", "t">>) <=> call.extractor = "text"
           /\ HasExtension(name, <<"c", "s", "v">>) <=> call.extractor = "csv"
           /\ HasExtension(name, <<"j", "s", "o", "n">>) <=> call.extractor = "json"
           /\ HasExtension(name, <<"p", "d", "f">>) <=> call.extractor = "pdf"
           /\ call.extractor = "none"
                 => call.result = [success |-> FALSE, error |-> "Unsupported file format"]

C6_Witness ==
    /\ call.via = "file"
    /\ call.entry = UpperTxtFile
    /\ call.extractor = "text"
    /\ call.result.success

C6_WitnessUnsupported ==
    /\ call.via = "file"
    /\ call.entry.name = <<".", "t", "x", "t">>
    /\ call.extractor = "none"
    /\ call.outcome = "returned"

\* C7: a result returned by ingest_file carries either a payload (one of
\* document and documents, never both) or an error, never both and never
\* neither: the payload iff success.
C7_PayloadXorError ==
    (call.via \in {"file", "directory"} /\ call.outcome = "returned") =>
       LET keys == DOMAIN call.result
       IN  /\ "success" \in keys
           /\ call.result.success =>
                 /\ ("document" \in keys) # ("documents" \in keys)
                 /\ "error" \notin keys
           /\ ~call.result.success =>
                 /\ "error" \in keys
                 /\ "document" \notin keys /\ "documents" \notin keys

C7_Witness ==
    /\ call.via = "file"
    /\ call.outcome = "returned"
    /\ call.extractor = "json"
    /\ call.result = Failure("No valid documents found")

\* C8: no counter of an ingestor ever decreases, in any step of any call,
\* and a returned ingest_directory call hands back the counters as they
\* stand, the earlier calls included.
C8_StepMonotone ==
    /\ stats'.files_processed >= stats.files_processed
    /\ stats'.documents_ingested >= stats.documents_ingested
    /\ stats'.errors >= stats.errors
    /\ (dir'.state = "done") =>
          /\ dir'.value = stats'
          /\ dir'.value.files_processed >= dir'.pre.files_processed
          /\ dir'.value.documents_ingested >= dir'.pre.documents_ingested
          /\ dir'.value.errors >= dir'.pre.errors

C8_CountersNeverDecrease == [][C8_StepMonotone]_vars

C8_Witness ==
    /\ dir.state = "done" /\ dir.kind = "dir"
    /\ dir.pre.files_processed = 1
    /\ dir.value.files_processed = 2
    /\ stats = dir.value


\* the documents of a success result
Documents(r) == IF "document" \in DOMAIN r THEN <<r.document>> ELSE r.documents

FileTypeTag(extractor) == CASE extractor = "text" -> "txt"
                            [] extractor = "csv" -> "csv"
                            [] extractor = "json" -> "json"
                            [] extractor = "pdf" -> "pdf"

ReturnedSuccess == /\ call.via \in {"file", "directory"}
                   /\ call.outcome = "returned"
                   /\ call.result.success

\* C9: in every document produced, source is the name of the file and
\* file_type the tag of its format, whatever the columns, fields and
\* document properties of the source data are called; num_pages of a
\* paginated document is its number of pages, and in the single-mapping
\* form document_id, or key, is the top-level key the document comes from.
C9_ReservedKeysKept ==
    ReturnedSuccess =>
       \A i \in 1..Len(Documents(call.result)) :
          LET m == Documents(call.result)[i].metadata
          IN  /\ m["source"] = VStr(Join(call.entry.name))
              /\ m["file_type"] = VStr(FileTypeTag(call.extractor))
              /\ call.extractor = "pdf" => m["num_pages"] = VInt(Len(call.payload.pages))
              /\ (call.extractor = "json" /\ call.payload.data.t = "dict") =>
                    \E j \in 1..Len(call.payload.data.pairs) :
                       LET p == call.payload.data.pairs[j]
                       IN  \/ /\ p[2].t = "dict"
                              /\ "document_id" \in DOMAIN m
                              /\ m["document_id"] = VStr(p[1])
                           \/ /\ p[2].t = "str"
                              /\ "key" \in DOMAIN m
                              /\ m["key"] = VStr(p[1])

ReservedKeys == {"source", "file_type"}

\* the recorded call ran the tabular extractor on a parsable table
TableIngested == /\ call.via = "file"
                 /\ call.extractor = "csv"
                 /\ call.payload.kind = "table"

\* a table of N rows gave N documents, document r holding row r: its
\* content is the content cell and its metadata the other cells of the row
RowsInOrder ==
    LET t == call.payload.table
        c == ColIndex(t, IdentifyContentColumn(t))
    IN  /\ call.outcome = "returned"
        /\ call.result.success
        /\ DOMAIN call.result = {"success", "documents"}
        /\ Len(call.result.documents) = Len(t.rows)
        /\ \A r \in 1..Len(t.rows) :
              /\ call.result.documents[r].content = StrCell(t, r, c)
              /\ \A j \in 1..Len(t.columns) :
                    (j # c /\ ~IsNull(t.rows[r][j])) =>
                       /\ t.columns[j] \in DOMAIN call.result.documents[r].metadata
                       /\ call.result.documents[r].metadata[t.columns[j]]
                             = VStr(StrCell(t, r, j))

\* C10 as stated: N rows give N documents in row order, and in each the
\* content column is no metadata key, every other column with a value in
\* the row is one, and the columns without a value in the row are absent.
C10_AsStated ==
    TableIngested =>
       LET t == call.payload.table
           c == ColIndex(t, IdentifyContentColumn(t))
       IN  /\ RowsInOrder
           /\ \A r \in 1..Len(t.rows) :
                 LET m == call.result.documents[r].metadata
                 IN  /\ t.columns[c] \notin DOMAIN m
                     /\ \A j \in 1..Len(t.columns) :
                           (j # c /\ IsNull(t.rows[r][j])) => t.columns[j] \notin DOMAIN m

\* C10 amended: as stated, except that a column called source or file_type
\* is always a metadata key, be it the content column or without a value
\* in the row.
C10_RowsToDocuments ==
    TableIngested =>
       LET t == call.payload.table
           c == ColIndex(t, IdentifyContentColumn(t))
       IN  /\ RowsInOrder
           /\ \A r \in 1..Len(t.rows) :
                 LET m == call.result.documents[r].metadata
                 IN  /\ ReservedKeys \subseteq DOMAIN m
                     /\ t.columns[c] \notin ReservedKeys => t.columns[c] \notin DOMAIN m
                     /\ \A j \in 1..Len(t.columns) :
                           (j # c /\ IsNull(t.rows[r][j]) /\ t.columns[j] \notin ReservedKeys)
                              => t.columns[j] \notin DOMAIN m

C10_Witness ==
    /\ TableIngested
    /\ call.payload.table = [columns |-> <<"note", "text">>,
                             rows |-> << <<"7", "abc">>, <<"", "abc">> >>]
    /\ Len(call.result.documents) = 2
    /\ DOMAIN call.result.documents[1].metadata = {"source", "file_type", "note"}
    /\ DOMAIN call.result.documents[2].metadata = {"source", "file_type"}


(***************************************************************************)
(* Properties of the content locators                                      *)
(***************************************************************************)
PriorityNames == {ContentNames[i] : i \in 1..Len(ContentNames)}

\* name a stands before name b in the priority list
Before(a, b) == \E i, k \in 1..Len(ContentNames) :
                   i < k /\ ContentNames[i] = a /\ ContentNames[k] = b

ColumnsOf(t) == {t.columns[j] : j \in 1..Len(t.columns)}

TextLike(t) == {j \in 1..Len(t.columns) : ColDtype(t, j) = "object"}

\* C14: the column locator returns the first priority name that is a
\* column, wherever that column stands and whatever the lengths are; with
\* no priority name among the columns, the text-like column of greatest
\* mean string length, the earliest of them on a tie; with no text-like
\* column, the first column.
C14_ColumnLocator ==
    call.via = "column" =>
       LET t == call.table
           c == call.column
       IN  /\ c \in ColumnsOf(t)
           /\ (ColumnsOf(t) \cap PriorityNames # {}) =>
                 /\ c \in PriorityNames
                 /\ \A d \in ColumnsOf(t) \cap PriorityNames : ~Before(d, c)
           /\ (ColumnsOf(t) \cap PriorityNames = {} /\ TextLike(t) # {}) =>
                 LET j == ColIndex(t, c)
                 IN  /\ j \in TextLike(t)
                     /\ \A k \in TextLike(t) : AvgLength(t, k) <= AvgLength(t, j)
                     /\ \A k \in TextLike(t) : AvgLength(t, k) = AvgLength(t, j) => j <= k
           /\ (ColumnsOf(t) \cap PriorityNames = {} /\ TextLike(t) = {}) =>
                 c = t.columns[1]

\* a priority column that is neither first nor the longest is chosen
C14_Witness ==
    /\ call.via = "column"
    /\ call.table = [columns |-> <<"note", "text">>,
                     rows |-> << <<"abc", "7">>, <<"abc", "">> >>]
    /\ call.column = "text"

\* two text-like columns of the same mean length: the earlier one
C14_WitnessTie ==
    /\ call.via = "column"
    /\ call.table = [columns |-> <<"note", "id">>,
                     rows |-> << <<"", "abc">>, <<"abc", "abc">> >>]
    /\ AvgLength(call.table, 1) = AvgLength(call.table, 2)
    /\ call.column = "note"

StringFields(ps) == {j \in 1..Len(ps) : ps[j][2].t = "str"}

LongFields(ps) == {j \in StringFields(ps) : Len(ps[j][2].s) >= 51}

\* C15: the field locator returns the first priority name that is a field
\* with a string value; else the longest of the string fields of more than
\* 50 characters, the earliest on a tie; else no content field.  The field
\* returned holds a string; {id: 1, note: "short"} has no content field.
C15_FieldLocator ==
    call.via = "field" =>
       LET ps == call.item
           named == {j \in StringFields(ps) : ps[j][1] \in PriorityNames}
       IN  /\ named # {} =>
                \E j \in named :
                   /\ call.field = <<ps[j][1]>>
                   /\ \A k \in named : ~Before(ps[k][1], ps[j][1])
           /\ (named = {} /\ LongFields(ps) # {}) =>
                \E j \in LongFields(ps) :
                   /\ call.field = <<ps[j][1]>>
                   /\ \A k \in LongFields(ps) : Len(ps[k][2].s) <= Len(ps[j][2].s)
                   /\ \A k \in LongFields(ps) :
                         Len(ps[k][2].s) = Len(ps[j][2].s) => j <= k
           /\ (named = {} /\ LongFields(ps) = {}) => call.field = <<>>
           /\ call.field # <<>> =>
                \E j \in StringFields(ps) : ps[j][1] = call.field[1]
           /\ ps = << <<"id", VInt(1)>>, <<"note", VStr("short")>> >> => call.field = <<>>

\* a priority name with a value that is no string is passed over
C15_Witness ==
    /\ call.via = "field"
    /\ call.item = << <<"content", VInt(1)>>, <<"text", VStr("short")>> >>
    /\ call.field = <<"text">>

\* a string of exactly 50 characters does not qualify, one of 51 does
C15_WitnessLength ==
    /\ call.via = "field"
    /\ call.item = << <<"note", VStr(Rep("a", 50))>>, <<"id", VStr(Rep("b", 51))>> >>
    /\ call.field = <<"id">>


(***************************************************************************)
(* Properties of the structured-record extractor                           *)
(***************************************************************************)
\* the recorded call ran the structured-record extractor on parsed JSON
JsonIngested == /\ call.via = "file"
                /\ call.extractor = "json"
                /\ call.payload.kind = "json"

\* v is an object in which the field locator finds a content field
Locatable(v) == v.t = "dict" /\ IdentifyJsonContentField(v.pairs) # <<>>

\* the content the field locator points at in a locatable object
LocatedContent(v) == Lookup(v.pairs, IdentifyJsonContentField(v.pairs)[1]).s

\* C11: a collection gives one document per object in which the field
\* locator finds a content field, in order, the other elements being
\* skipped and no error counted; the result is success with these documents
\* when there is one, the failure "No valid documents found" when none.
C11_OneDocumentPerLocatable ==
    (JsonIngested /\ call.payload.data.t = "list") =>
       LET found == SelectSeq(call.payload.data.items, Locatable)
       IN  /\ call.outcome = "returned"
           /\ stats.errors = call.pre.errors
           /\ found # <<>> =>
                 /\ call.result.success
                 /\ Len(call.result.documents) = Len(found)
                 /\ \A i \in 1..Len(found) :
                       call.result.documents[i].content = LocatedContent(found[i])
           /\ found = <<>> => call.result = Failure("No valid documents found")

\* v is a text blob of the single-mapping form
IsBlob(v) == v.t = "str" /\ Len(v.s) >= 101

\* the top-level pair p gives a document
GivesDocument(p) == IsBlob(p[2]) \/ Locatable(p[2])

\* C12: a single mapping gives, per top-level key in order, one document
\* with the metadata {source, file_type, key} for a string of more than
\* 100 characters, one document with document_id = key and the other
\* scalar fields as metadata for an object with a locatable content field,
\* and nothing otherwise; fields holding a list or an object are no
\* metadata.  {intro: 120 characters, meta: {content, tag}} gives two.
C12_SingleMapping ==
    (JsonIngested /\ call.payload.data.t = "dict") =>
       LET from == SelectSeq(call.payload.data.pairs, GivesDocument)
           docs == IF call.result.success THEN call.result.documents ELSE <<>>
       IN  /\ Len(docs) = Len(from)
           /\ \A i \in 1..Len(from) :
                 LET key == from[i][1]
                     v == from[i][2]
                     m == docs[i].metadata
                 IN  IF IsBlob(v)
                     THEN /\ docs[i].content = v.s
                          /\ DOMAIN m = {"source", "file_type", "key"}
                          /\ m["key"] = VStr(key)
                     ELSE /\ docs[i].content = LocatedContent(v)
                          /\ m["document_id"] = VStr(key)
                          /\ \A j \in 1..Len(v.pairs) :
                                LET k == v.pairs[j][1]
                                IN  /\ (k # "document_id" /\ k \in DOMAIN m)
                                          => IsScalar(v.pairs[j][2])
                                    /\ (IsScalar(v.pairs[j][2])
                                          /\ <<k>> # IdentifyJsonContentField(v.pairs))
                                          => (k = "document_id" \/ m[k] = v.pairs[j][2])
           /\ call.payload.data.pairs = << <<"intro", VStr(Rep("a", 120))>>,
                                           <<"meta", ExampleRecord>> >>
                 => Len(docs) = 2


(***************************************************************************)
(* Properties of the paginated-document extractor                          *)
(***************************************************************************)
\* the recorded call ran the paginated-document extractor on a readable file
PdfIngested == /\ call.via = "file"
               /\ call.extractor = "pdf"
               /\ call.payload.kind = "pdf"

\* the marker and text of page n and of the pages after it, for the pages
\* that have text
RECURSIVE MarkedFrom(_, _)
MarkedFrom(pages, n) ==
    IF n > Len(pages) THEN ""
    ELSE (IF pages[n] = "" THEN ""
          ELSE "--- Page " \o NatStr(n) \o " ---\n" \o pages[n] \o "\n\n")
         \o MarkedFrom(pages, n + 1)

\* C13: a readable paginated file gives success with exactly one document;
\* its content is, in page order, "--- Page N ---" and the text of page N
\* for the pages that have text, N counting all pages from 1, and is empty
\* when no page has text; num_pages is the number of all pages.
C13_OneDocumentOfPages ==
    PdfIngested =>
       LET pages == call.payload.pages
       IN  /\ call.outcome = "returned"
           /\ call.result.success
           /\ DOMAIN call.result = {"success", "document"}
           /\ call.result.document.content = MarkedFrom(pages, 1)
           /\ (\A n \in 1..Len(pages) : pages[n] = "") => call.result.document.content = ""
           /\ pages = <<"one", "", "two">> =>
                 call.result.document.content
                    = "--- Page 1 ---\none\n\n--- Page 3 ---\ntwo\n\n"
           /\ call.result.document.metadata["num_pages"] = VInt(Len(pages))


(***************************************************************************)
(* Frame of a failed ingest_file call                                      *)
(***************************************************************************)
\* the recorded ingest_file call raised or returned a failure result
FileCallFailed == /\ call.via \in {"file", "directory"}
                  /\ \/ call.outcome = "raised"
                     \/ call.outcome = "returned" /\ ~call.result.success

\* C16: an ingest_file call that raises not-found or returns a failure
\* leaves the three counters as they were; documents_ingested is never
\* increased for a file whose result is a failure.  (Made by the loop of
\* ingest_directory, the call is followed by the loop's own count of the
\* file, which is all that changes.)
C16_FailureLeavesCounters ==
    FileCallFailed =>
       /\ stats.documents_ingested = call.pre.documents_ingested
       /\ call.via = "file" => stats = call.pre
       /\ call.via = "directory" =>
             stats.files_processed + stats.errors
                = call.pre.files_processed + call.pre.errors + 1

C16_Witness ==
    /\ FileCallFailed
    /\ call.via = "file"
    /\ call.extractor = "csv"
    /\ call.payload = Unreadable
    /\ call.pre = Stats(0, 1, 0)
    /\ stats = Stats(0, 1, 0)

====
